---- MODULE Spec2Model ----
(***************************************************************************)
(* gitleaks: the audit loop getLeaks (one goroutine per commit, a          *)
(* semaphore channel around `git diff`, one aggregator goroutine that      *)
(* appends leaks to the report), the loading of the configuration          *)
(* (newConfig, Config.update, Config.updateEntropyRanges,                  *)
(* Config.updateFromRepo), the whitelist and redaction of leaks, and the   *)
(* Azure DevOps organization audit (auditAzureDevOpsRepos).                *)
(***************************************************************************)
EXTENDS Integers, Sequences, FiniteSets, Bags, TLC

\* ------------------------------------------------------------------ bounds
\* commits `git rev-list` may print
MaxCommits == 2
\* leaks detection may produce over all commits of one run
MaxLeaks == 2
\* largest value of opts.Concurrency
MaxConcurrency == 2
\* range strings in tomlConfig.Misc.Entropy
MaxRanges == 2
\* hyphen-separated parts of one range string
MaxParts == 3
\* entries (rules, patterns, commit ids, branch names, range strings) of one config document
MaxEntries == 2

\* repositories of the Azure DevOps organization
MaxRepos == 2

\* leaks the audit of one repository finds
MaxRepoLeaks == 1

\* interrupts (SIGINT, SIGTERM) sent to the process
MaxSignals == 1

\* ------------------------------------------------------------------ inputs
IdName == <<"c1", "c2", "c3", "c4", "c5", "c6">>
Ids == {IdName[j] : j \in 1..MaxCommits}

VARIABLES
  opts,        \* Options: Concurrency, SinceCommit, Depth
  commits,     \* bytes.Split(out, "\n") of the rev-list output
  diffable,    \* per commit: `git diff c^!` succeeds when run inside the intact clone
  detected,    \* per commit: number of leaks doChecks returns for its diff
  pcD,         \* position of the goroutine running getLeaks
  i,           \* index of the range loop over commits
  dispatched,  \* commit ids a task goroutine was started for, in order
  pc,          \* position of each per-commit goroutine
  err,         \* per task: err of exec.Command("git", "diff", ...).Output()
  k,           \* per task: leaks announced with gitLeakReceiverWG.Add(1) so far
  sem,         \* len(semaphoreChan)
  commitWG,    \* counter of commitWG
  recvWG,      \* counter of gitLeakReceiverWG
  pcA,         \* position of the aggregator goroutine
  gitLeak,     \* the aggregator's loop variable
  report,      \* report []LeakElem
  ret,         \* value getLeaks returned
  cwd,         \* working directory of the process
  repoExists,  \* the clone appRoot/repoName is on disk
  fatal,       \* which log.Fatal ended the process ("none": still running)
  entropyRanges, \* config.Entropy.entropyRanges
  load,        \* position of updateEntropyRanges, or how it ended
  cenv,        \* what newConfig reads: opts.ConfigPath, GITLEAKS_CONFIG, the files, the ssh key, singleSearchRegex
  configPath,  \* newConfig's configPath
  document,    \* the config document newConfig decoded
  config,      \* the Config being built (entropyRanges apart)
  cerr,        \* error newConfig returned
  cret,        \* what newConfig returned: "nil", "config"; "panic"; "none" before it ran
  repoUpdate,  \* how Config.updateFromRepo ended ("none": not called)
  az,          \* auditAzureDevOpsRepos: its inputs, locals, position and results
  flt,         \* the whitelist check of one leak candidate, and the leak reported
  run          \* start: its position, the signal channel c and the goroutine reading it

vars == <<opts, commits, diffable, detected, pcD, i, dispatched, pc, err, k, sem,
          commitWG, recvWG, pcA, gitLeak, report, ret, cwd, repoExists, fatal,
          entropyRanges, load, cenv, configPath, document, config, cerr, cret, repoUpdate,
          az, flt, run>>

loader == <<entropyRanges, load>>

builder == <<cenv, configPath, document, config, cerr, cret, repoUpdate>>

rest == <<az, flt, run>>

others == <<builder, rest>>

audit == <<pcD, i, dispatched, pc, err, k, sem, commitWG, recvWG, pcA, gitLeak,
           report, ret, cwd, repoExists, fatal>>

inputs == <<opts, commits, diffable, detected>>

\* rev-list prints one id per line: distinct ids, then the text after the last "\n"
RevListOutput(n) == [j \in 1..(n + 1) |-> IF j <= n THEN IdName[j] ELSE ""]

RECURSIVE SumOver(_, _)
SumOver(f, S) ==
  IF S = {} THEN 0 ELSE LET x == CHOOSE y \in S : TRUE IN f[x] + SumOver(f, S \ {x})

NoLeak == [Commit |-> "", n |-> 0]

\* LeakElem values of one commit: doChecks stamps each with the commit it was given
DoChecks(c) == [j \in 1..detected[c] |-> [Commit |-> c, n |-> j]]

InitInputs(depths) ==
  /\ \E n \in 0..MaxCommits :
       /\ commits = RevListOutput(n)
       /\ diffable \in [Ids -> BOOLEAN]
       /\ detected \in [Ids -> 0..MaxLeaks]
       /\ \A c \in Ids : c \notin {IdName[j] : j \in 1..n} => diffable[c] /\ detected[c] = 0
       /\ SumOver(detected, Ids) <= MaxLeaks
  /\ opts \in [Concurrency : 0..MaxConcurrency, SinceCommit : {""} \cup Ids, Depth : depths]

InitState ==
  /\ pcD = "revlist"
  /\ i = 1
  /\ dispatched = <<>>
  /\ pc = [c \in Ids |-> "none"]
  /\ err = [c \in Ids |-> FALSE]
  /\ k = [c \in Ids |-> 0]
  /\ sem = 0
  /\ commitWG = 0
  /\ recvWG = 0
  /\ pcA = "recv"
  /\ gitLeak = NoLeak
  /\ report = <<>>
  /\ ret = <<>>
  /\ cwd = "repo"
  /\ repoExists = TRUE
  /\ fatal = "none"

\* ------------------------------------------------ configuration values
\* regular expression sources: "(" does not compile
Patterns == {"a", "b", "("}

SinglePattern == "s"

\* a config document (TOML): its tables and keys
EmptyDocument ==
  [Rules |-> <<>>,
   Regexes |-> <<>>,
   Entropy |-> [LineRegexes |-> <<>>],
   Whitelist |-> [Files |-> <<>>, Regexes |-> <<>>, Commits |-> <<>>, Repos |-> <<>>,
                  Branches |-> <<>>],
   Misc |-> [Entropy |-> <<>>]]

\* var config Config
EmptyConfig ==
  [Regexes |-> <<>>,
   WhiteList |-> [regexes |-> <<>>, files |-> <<>>, commits |-> {}, repos |-> <<>>],
   Entropy |-> [regexes |-> <<>>]]

NoError == [msg |-> "", arg |-> ""]

Error(m, a) == [msg |-> m, arg |-> a]

NoEnv == [ConfigPath |-> "", StatOK |-> TRUE, EnvPath |-> "", DecodeOK |-> TRUE,
          SSHOK |-> TRUE, Single |-> FALSE]

\* auditAzureDevOpsRepos has not been called
AzIdle ==
  [pc |-> "idle", setup |-> "ok", repos |-> <<>>, Report |-> "", writeOK |-> TRUE,
   idx |-> 0, leaks |-> <<>>, warned |-> {}, audited |-> {}, removed |-> {},
   written |-> FALSE, ret |-> -1, err |-> ""]

InitAzIdle == az = AzIdle

\* a whitelist without entries
EmptyWhitelist == [commits |-> {}, files |-> {}, branches |-> {}, regexes |-> {}, repos |-> {}]

\* no leak candidate is being checked
FilterIdle ==
  [pc |-> "idle", wl |-> EmptyWhitelist,
   leak |-> [Line |-> "", Commit |-> "", Offender |-> "", Type |-> "", File |-> "",
             Branch |-> "", Repo |-> "", Author |-> ""],
   redact |-> FALSE, checked |-> {}, result |-> <<>>]

InitFilterIdle == flt = FilterIdle

\* getLeaks called inside a clone, with no signal goroutine
StartIdle == [pc |-> "getLeaks", handler |-> "none", c |-> 0, signals |-> 0, named |-> TRUE]

InitStartIdle == run = StartIdle

\* newConfig has not been called
InitBuilderIdle ==
  /\ cenv = NoEnv
  /\ configPath = ""
  /\ document = EmptyDocument
  /\ config = EmptyConfig
  /\ cerr = NoError
  /\ cret = "none"
  /\ repoUpdate = "none"

\* the configuration the audit runs with has been loaded, with no entropy range
InitLoaded == entropyRanges = <<>> /\ load = "ok" /\ InitBuilderIdle /\ InitAzIdle /\ InitFilterIdle

\* no --depth given
Init == InitInputs({0}) /\ InitState /\ InitLoaded /\ InitStartIdle

\* --depth=D given
InitDepth == InitInputs(1..MaxCommits) /\ InitState /\ InitLoaded /\ InitStartIdle

Running == fatal = "none"

\* ------------------------------------------------------------- dispatcher
RevList ==
  /\ Running /\ pcD = "revlist"
  /\ pcD' = "loop"
  /\ UNCHANGED <<others, inputs, loader, i, dispatched, pc, err, k, sem, commitWG, recvWG, pcA,
                 gitLeak, report, ret, cwd, repoExists, fatal>>

RevListFatal ==
  /\ Running /\ pcD = "revlist"
  /\ fatal' = "revlist"
  /\ UNCHANGED <<others, inputs, loader, pcD, i, dispatched, pc, err, k, sem, commitWG, recvWG, pcA,
                 gitLeak, report, ret, cwd, repoExists>>

IsEmptyCommit(currCommit) == currCommit = ""

ShouldBreakNever(currCommit) == FALSE

ShouldBreak(currCommit) == currCommit = opts.SinceCommit

InLoop == Running /\ pcD = "loop" /\ i <= Len(commits)

LoopContinue ==
  /\ InLoop
  /\ IsEmptyCommit(commits[i])
  /\ i' = i + 1
  /\ UNCHANGED <<others, inputs, loader, pcD, dispatched, pc, err, k, sem, commitWG, recvWG, pcA,
                 gitLeak, report, ret, cwd, repoExists, fatal>>

LoopBreak ==
  /\ InLoop
  /\ ~IsEmptyCommit(commits[i])
  /\ ShouldBreak(commits[i])
  /\ pcD' = "commitWait"
  /\ UNCHANGED <<others, inputs, loader, i, dispatched, pc, err, k, sem, commitWG, recvWG, pcA,
                 gitLeak, report, ret, cwd, repoExists, fatal>>

Dispatch ==
  /\ InLoop
  /\ ~IsEmptyCommit(commits[i])
  /\ ~ShouldBreak(commits[i])
  /\ commitWG' = commitWG + 1
  /\ pc' = [pc EXCEPT ![commits[i]] = "chdir"]
  /\ dispatched' = Append(dispatched, commits[i])
  /\ i' = i + 1
  /\ UNCHANGED <<others, inputs, loader, pcD, err, k, sem, recvWG, pcA, gitLeak, report, ret, cwd,
                 repoExists, fatal>>

LoopEnd ==
  /\ Running /\ pcD = "loop" /\ i > Len(commits)
  /\ pcD' = "commitWait"
  /\ UNCHANGED <<others, inputs, loader, i, dispatched, pc, err, k, sem, commitWG, recvWG, pcA,
                 gitLeak, report, ret, cwd, repoExists, fatal>>

CommitWaitSkipped == TRUE

CommitWaitDone == commitWG = 0

CommitWait ==
  /\ Running /\ pcD = "commitWait"
  /\ CommitWaitDone
  /\ pcD' = "receiverWait"
  /\ UNCHANGED <<others, inputs, loader, i, dispatched, pc, err, k, sem, commitWG, recvWG, pcA,
                 gitLeak, report, ret, cwd, repoExists, fatal>>

ReceiverWaitSkipped == TRUE

\* the wait returns with one announced leak still outstanding
ReceiverWaitDoneEarly == recvWG <= 1

ReceiverWaitDone == recvWG = 0

ReceiverWait ==
  /\ Running /\ pcD = "receiverWait"
  /\ ReceiverWaitDone
  /\ pcD' = "return"
  /\ UNCHANGED <<others, inputs, loader, i, dispatched, pc, err, k, sem, commitWG, recvWG, pcA,
                 gitLeak, report, ret, cwd, repoExists, fatal>>

Return ==
  /\ Running /\ pcD = "return"
  /\ ret' = report
  /\ pcD' = "returned"
  /\ UNCHANGED <<others, inputs, loader, i, dispatched, pc, err, k, sem, commitWG, recvWG, pcA,
                 gitLeak, report, cwd, repoExists, fatal>>

\* ------------------------------------------------------- per-commit tasks
At(c, p) == Running /\ pc[c] = p

Goto(c, p) == pc' = [pc EXCEPT ![c] = p]

Chdir(c) ==
  /\ At(c, "chdir")
  /\ repoExists
  /\ cwd' = "repo"
  /\ Goto(c, "acquire")
  /\ UNCHANGED <<others, inputs, loader, pcD, i, dispatched, err, k, sem, commitWG, recvWG, pcA,
                 gitLeak, report, ret, repoExists, fatal>>

ChdirFatal(c) ==
  /\ At(c, "chdir")
  /\ ~repoExists
  /\ fatal' = "chdir"
  /\ UNCHANGED <<others, inputs, loader, pcD, i, dispatched, pc, err, k, sem, commitWG, recvWG, pcA,
                 gitLeak, report, ret, cwd, repoExists>>

CanAcquireOffByOne == sem <= opts.Concurrency

\* a channel of capacity 0 taken for one without limit
CanAcquireUnbuffered == sem < opts.Concurrency \/ opts.Concurrency = 0

CanAcquire == sem < opts.Concurrency

Acquire(c) ==
  /\ At(c, "acquire")
  /\ CanAcquire
  /\ sem' = sem + 1
  /\ Goto(c, "diff")
  /\ UNCHANGED <<others, inputs, loader, pcD, i, dispatched, err, k, commitWG, recvWG, pcA,
                 gitLeak, report, ret, cwd, repoExists, fatal>>

\* `git diff` is started in the working directory of the process: it succeeds
\* only inside the clone, while the clone is on disk
DiffSucceeds(c) == cwd = "repo" /\ repoExists /\ diffable[c]

Diff(c) ==
  /\ At(c, "diff")
  /\ err' = [err EXCEPT ![c] = ~DiffSucceeds(c)]
  /\ Goto(c, "release")
  /\ UNCHANGED <<others, inputs, loader, pcD, i, dispatched, k, sem, commitWG, recvWG, pcA,
                 gitLeak, report, ret, cwd, repoExists, fatal>>

\* the task goes on without receiving from semaphoreChan
ReleaseKept(c) ==
  /\ At(c, "release")
  /\ Goto(c, "check")
  /\ UNCHANGED <<others, inputs, loader, pcD, i, dispatched, err, k, sem, commitWG, recvWG,
                 pcA, gitLeak, report, ret, cwd, repoExists, fatal>>

Release(c) ==
  /\ At(c, "release")
  /\ sem > 0
  /\ sem' = sem - 1
  /\ Goto(c, "check")
  /\ UNCHANGED <<others, inputs, loader, pcD, i, dispatched, err, k, commitWG, recvWG, pcA,
                 gitLeak, report, ret, cwd, repoExists, fatal>>

DiffFailed(c) ==
  /\ At(c, "check")
  /\ err[c]
  /\ Goto(c, "cleanupChdir")
  /\ UNCHANGED <<others, inputs, loader, pcD, i, dispatched, err, k, sem, commitWG, recvWG, pcA,
                 gitLeak, report, ret, cwd, repoExists, fatal>>

\* `rm -rf repoName` names the clone relative to the working directory of the
\* process: it removes the clone when run in appRoot and nothing when run inside
\* the clone, and succeeds either way
RmRf == IF cwd = "appRoot" THEN FALSE ELSE repoExists

\* cleanup(repoName), called by the task itself: appRoot exists throughout
CleanupChdir(c) ==
  /\ At(c, "cleanupChdir")
  /\ cwd' = "appRoot"
  /\ Goto(c, "cleanupRm")
  /\ UNCHANGED <<others, inputs, loader, pcD, i, dispatched, err, k, sem, commitWG, recvWG, pcA,
                 gitLeak, report, ret, repoExists, fatal>>

CleanupRm(c) ==
  /\ At(c, "cleanupRm")
  /\ repoExists' = RmRf
  /\ Goto(c, "exit")
  /\ UNCHANGED <<others, inputs, loader, pcD, i, dispatched, err, k, sem, commitWG, recvWG, pcA,
                 gitLeak, report, ret, cwd, fatal>>

HasLeaksAlways(c) == TRUE

HasLeaks(c) == Len(DoChecks(c)) # 0

Check(c) ==
  /\ At(c, "check")
  /\ ~err[c]
  /\ Goto(c, IF HasLeaks(c) THEN "add" ELSE "exit")
  /\ UNCHANGED <<others, inputs, loader, pcD, i, dispatched, err, k, sem, commitWG, recvWG, pcA,
                 gitLeak, report, ret, cwd, repoExists, fatal>>

Add(c) ==
  /\ At(c, "add")
  /\ recvWG' = recvWG + 1
  /\ k' = [k EXCEPT ![c] = k[c] + 1]
  /\ Goto(c, "send")
  /\ UNCHANGED <<others, inputs, loader, pcD, i, dispatched, err, sem, commitWG, pcA,
                 gitLeak, report, ret, cwd, repoExists, fatal>>

\* the range loop over leaks has another element after the k[c]-th
MoreLeaksNever(c) == FALSE

MoreLeaks(c) == k[c] < Len(DoChecks(c))

\* the unbuffered gitLeaks channel: a send and the aggregator's receive meet
Send(c) ==
  /\ At(c, "send")
  /\ pcA = "recv"
  /\ gitLeak' = [Commit |-> c, n |-> k[c]]
  /\ pcA' = "append"
  /\ Goto(c, IF MoreLeaks(c) THEN "add" ELSE "exit")
  /\ UNCHANGED <<others, inputs, loader, pcD, i, dispatched, err, k, sem, commitWG, recvWG,
                 report, ret, cwd, repoExists, fatal>>

TaskDone(c) ==
  /\ At(c, "exit")
  /\ commitWG' = commitWG - 1
  /\ Goto(c, "done")
  /\ UNCHANGED <<others, inputs, loader, pcD, i, dispatched, err, k, sem, recvWG, pcA,
                 gitLeak, report, ret, cwd, repoExists, fatal>>

\* ------------------------------------------------------------- aggregator
\* the received leak put in front of the report
AggPrepend ==
  /\ Running /\ pcA = "append"
  /\ report' = <<gitLeak>> \o report
  /\ pcA' = "wgDone"
  /\ UNCHANGED <<others, inputs, loader, pcD, i, dispatched, pc, err, k, sem, commitWG, recvWG,
                 gitLeak, ret, cwd, repoExists, fatal>>

AggAppend ==
  /\ Running /\ pcA = "append"
  /\ report' = Append(report, gitLeak)
  /\ pcA' = "wgDone"
  /\ UNCHANGED <<others, inputs, loader, pcD, i, dispatched, pc, err, k, sem, commitWG, recvWG,
                 gitLeak, ret, cwd, repoExists, fatal>>

AggDone ==
  /\ Running /\ pcA = "wgDone"
  /\ recvWG' = recvWG - 1
  /\ pcA' = "recv"
  /\ UNCHANGED <<others, inputs, loader, pcD, i, dispatched, pc, err, k, sem, commitWG,
                 gitLeak, report, ret, cwd, repoExists, fatal>>

Task(c) ==
  \/ Chdir(c) \/ ChdirFatal(c) \/ Acquire(c) \/ Diff(c) \/ Release(c)
  \/ DiffFailed(c) \/ CleanupChdir(c) \/ CleanupRm(c) \/ Check(c)
  \/ Add(c) \/ Send(c) \/ TaskDone(c)

Next ==
  \/ RevList \/ RevListFatal \/ LoopContinue \/ LoopBreak \/ Dispatch \/ LoopEnd
  \/ CommitWait \/ ReceiverWait \/ Return
  \/ \E c \in Ids : Task(c)
  \/ AggAppend \/ AggDone

Spec == Init /\ [][Next]_vars

\* the goroutine that runs getLeaks
Dispatcher ==
  \/ RevList \/ RevListFatal \/ LoopContinue \/ LoopBreak \/ Dispatch \/ LoopEnd
  \/ CommitWait \/ ReceiverWait \/ Return

Aggregator == AggAppend \/ AggDone

\* the Go scheduler runs every goroutine that stays runnable
Fairness ==
  /\ WF_vars(Dispatcher)
  /\ WF_vars(Aggregator)
  /\ \A c \in Ids : WF_vars(Task(c))

SpecFair == Init /\ [][Next]_vars /\ Fairness

\* ------------------------------------------------------------------ start
\* capacity of the channel signal.Notify delivers to
SignalBuffer == 2

\* start is called in appRoot, before the clone; getLeaks has not been called.
\* named: getLocalRepoName(url) is the directory `git clone` creates
InitStart ==
  /\ InitInputs({0})
  /\ InitLoaded
  /\ pcD = "notCalled"
  /\ i = 1
  /\ dispatched = <<>>
  /\ pc = [c \in Ids |-> "none"]
  /\ err = [c \in Ids |-> FALSE]
  /\ k = [c \in Ids |-> 0]
  /\ sem = 0
  /\ commitWG = 0
  /\ recvWG = 0
  /\ pcA = "recv"
  /\ gitLeak = NoLeak
  /\ report = <<>>
  /\ ret = <<>>
  /\ cwd = "appRoot"
  /\ repoExists = FALSE
  /\ fatal = "none"
  /\ run \in [pc : {"clone"}, handler : {"none"}, c : {0}, signals : {0}, named : BOOLEAN]

StartUnchanged ==
  UNCHANGED <<inputs, loader, builder, az, flt, i, dispatched, pc, err, k, sem, commitWG,
              recvWG, pcA, gitLeak, report, ret>>

InStart(p) == Running /\ run.pc = p

\* a signal arrives: signal.Notify sends without blocking and drops the signal
\* when the channel is full
Interrupt ==
  /\ Running
  /\ run.signals < MaxSignals
  /\ run' = [run EXCEPT !.signals = @ + 1,
                         !.c = IF @ < SignalBuffer THEN @ + 1 ELSE @]
  /\ UNCHANGED <<pcD, cwd, repoExists, fatal>>
  /\ StartUnchanged

StartClone ==
  /\ InStart("clone")
  /\ repoExists' = TRUE
  /\ run' = [run EXCEPT !.pc = "chdir"]
  /\ UNCHANGED <<pcD, cwd, fatal>>
  /\ StartUnchanged

\* log.Printf and return: the goroutine reading c is never started
StartCloneFailed ==
  /\ InStart("clone")
  /\ run' = [run EXCEPT !.pc = "returned"]
  /\ UNCHANGED <<pcD, cwd, repoExists, fatal>>
  /\ StartUnchanged

StartChdir ==
  /\ InStart("chdir")
  /\ run.named
  /\ cwd' = "repo"
  /\ run' = [run EXCEPT !.pc = "go"]
  /\ UNCHANGED <<pcD, repoExists, fatal>>
  /\ StartUnchanged

StartChdirFatal ==
  /\ InStart("chdir")
  /\ ~run.named
  /\ fatal' = "start"
  /\ UNCHANGED <<run, pcD, cwd, repoExists>>
  /\ StartUnchanged

\* go func() { <-c; ... }() and the call of getLeaks
StartGetLeaks ==
  /\ InStart("go")
  /\ run' = [run EXCEPT !.pc = "getLeaks", !.handler = "wait"]
  /\ pcD' = "revlist"
  /\ UNCHANGED <<cwd, repoExists, fatal>>
  /\ StartUnchanged

\* cleanup(repoName) once getLeaks has returned
StartCleanupChdir ==
  /\ InStart("getLeaks")
  /\ pcD = "returned"
  /\ cwd' = "appRoot"
  /\ run' = [run EXCEPT !.pc = "rm"]
  /\ UNCHANGED <<pcD, repoExists, fatal>>
  /\ StartUnchanged

StartCleanupRm ==
  /\ InStart("rm")
  /\ repoExists' = RmRf
  /\ run' = [run EXCEPT !.pc = "write"]
  /\ UNCHANGED <<pcD, cwd, fatal>>
  /\ StartUnchanged

StartWrite ==
  /\ InStart("write")
  /\ run' = [run EXCEPT !.pc = "returned"]
  /\ UNCHANGED <<pcD, cwd, repoExists, fatal>>
  /\ StartUnchanged

StartWriteFatal ==
  /\ InStart("write")
  /\ fatal' = "write"
  /\ UNCHANGED <<run, pcD, cwd, repoExists>>
  /\ StartUnchanged

Start ==
  \/ StartClone \/ StartCloneFailed \/ StartChdir \/ StartChdirFatal \/ StartGetLeaks
  \/ StartCleanupChdir \/ StartCleanupRm \/ StartWrite \/ StartWriteFatal

\* the goroutine reading c. It stays runnable after start has returned: what the
\* caller of start does next is not part of this file
OnHandler(p) == Running /\ run.handler = p

HandlerReceive ==
  /\ OnHandler("wait")
  /\ run.c > 0
  /\ run' = [run EXCEPT !.c = @ - 1, !.handler = "chdir"]
  /\ UNCHANGED <<pcD, cwd, repoExists, fatal>>
  /\ StartUnchanged

HandlerCleanupChdir ==
  /\ OnHandler("chdir")
  /\ cwd' = "appRoot"
  /\ run' = [run EXCEPT !.handler = "rm"]
  /\ UNCHANGED <<pcD, repoExists, fatal>>
  /\ StartUnchanged

HandlerCleanupRm ==
  /\ OnHandler("rm")
  /\ repoExists' = RmRf
  /\ run' = [run EXCEPT !.handler = "exit"]
  /\ UNCHANGED <<pcD, cwd, fatal>>
  /\ StartUnchanged

\* os.Exit(1)
HandlerExit ==
  /\ OnHandler("exit")
  /\ fatal' = "interrupt"
  /\ UNCHANGED <<run, pcD, cwd, repoExists>>
  /\ StartUnchanged

Handler == HandlerReceive \/ HandlerCleanupChdir \/ HandlerCleanupRm \/ HandlerExit

NextStart == Interrupt \/ Start \/ Handler \/ Next

\* every goroutine that stays runnable is run; signals come as they please
SpecStart ==
  InitStart /\ [][NextStart]_vars /\ WF_vars(Start) /\ WF_vars(Handler) /\ Fairness

\* ------------------------------------------------- updateEntropyRanges
\* A range string is a sequence of lexemes: a decimal digit, the word NaN, a
\* character that is part of no number, or the hyphen.
Digits == {"1", "3", "5", "9"}

Tokens == {<<>>, <<"NaN">>, <<"x">>} \cup {<<d>> : d \in Digits}

RECURSIVE Join(_)
Join(parts) ==
  IF Len(parts) = 1 THEN parts[1] ELSE parts[1] \o <<"-">> \o Join(Tail(parts))

Spans == UNION {{Join(parts) : parts \in [1..n -> Tokens]} : n \in 1..MaxParts}

\* strings.Split(span, "-")
RECURSIVE Split(_)
Split(span) ==
  IF \A j \in DOMAIN span : span[j] # "-"
  THEN <<span>>
  ELSE LET j == CHOOSE h \in DOMAIN span :
                  span[h] = "-" /\ \A g \in 1..(h - 1) : span[g] # "-"
       IN <<SubSeq(span, 1, j - 1)>> \o Split(SubSeq(span, j + 1, Len(span)))

\* float64: a number or NaN
Float(n) == [nan |-> FALSE, val |-> n]

NaN == [nan |-> TRUE, val |-> 0]

\* IEEE comparisons: every comparison with NaN is false
Gt(a, b) == ~a.nan /\ ~b.nan /\ a.val > b.val

Lt(a, b) == ~a.nan /\ ~b.nan /\ a.val < b.val

DigitVal(d) == CASE d = "1" -> 1 [] d = "3" -> 3 [] d = "5" -> 5 [] d = "9" -> 9

RECURSIVE Decimal(_)
Decimal(s) == IF s = <<>> THEN 0 ELSE 10 * Decimal(SubSeq(s, 1, Len(s) - 1)) + DigitVal(s[Len(s)])

\* strconv.ParseFloat(s, 64)
ParseFloat(s) ==
  IF s = <<"NaN">> THEN [ok |-> TRUE, f |-> NaN]
  ELSE IF s # <<>> /\ \A j \in DOMAIN s : s[j] \in Digits
       THEN [ok |-> TRUE, f |-> Float(Decimal(s))]
       ELSE [ok |-> FALSE, f |-> Float(0)]

EntropyMax == 8

OutOfBounds(v1, v2) ==
  Gt(v1, Float(EntropyMax)) \/ Lt(v1, Float(0)) \/ Gt(v2, Float(EntropyMax)) \/ Lt(v2, Float(0))

\* one iteration of the loop over entropyLimitStr: how it leaves the loop body
RangeOutcome(span) ==
  LET split == Split(span)
      p1 == ParseFloat(split[1])
  IN IF ~p1.ok THEN "error"
     ELSE IF Len(split) < 2 THEN "panic"
     ELSE LET p2 == ParseFloat(split[2])
          IN IF ~p2.ok THEN "error"
             ELSE IF Gt(p1.f, p2.f) THEN "error"
             ELSE IF OutOfBounds(p1.f, p2.f) THEN "error"
             ELSE "append"

EntropyRange(span) ==
  LET split == Split(span)
  IN [v1 |-> ParseFloat(split[1]).f, v2 |-> ParseFloat(split[2]).f]

InitLoading ==
  entropyRanges = <<>> /\ load = "loop" /\ InitBuilderIdle /\ InitAzIdle /\ InitFilterIdle

\* the audit has not started: one fixed repository
InitIdle ==
  /\ commits = RevListOutput(0)
  /\ diffable = [c \in Ids |-> TRUE]
  /\ detected = [c \in Ids |-> 0]
  /\ opts = [Concurrency |-> 1, SinceCommit |-> "", Depth |-> 0]
  /\ InitState
  /\ InitStartIdle

InitEntropy == InitIdle /\ InitLoading

Looping == load = "loop" /\ Len(entropyRanges) < MaxRanges

RangeAppend ==
  /\ Looping
  /\ \E span \in Spans :
       /\ RangeOutcome(span) = "append"
       /\ entropyRanges' = Append(entropyRanges, EntropyRange(span))
  /\ UNCHANGED <<others, inputs, audit, load>>

RangeError ==
  /\ Looping
  /\ \E span \in Spans : RangeOutcome(span) = "error"
  /\ load' = "error"
  /\ UNCHANGED <<others, inputs, audit, entropyRanges>>

RangePanic ==
  /\ Looping
  /\ \E span \in Spans : RangeOutcome(span) = "panic"
  /\ load' = "panic"
  /\ UNCHANGED <<others, inputs, audit, entropyRanges>>

RangesEnd ==
  /\ load = "loop"
  /\ load' = "ok"
  /\ UNCHANGED <<others, inputs, audit, entropyRanges>>

NextEntropy == RangeAppend \/ RangeError \/ RangePanic \/ RangesEnd

SpecEntropy == InitEntropy /\ [][NextEntropy]_vars

\* ------------------------------------------------------------ newConfig
\* range strings a config document may hold
DocSpans == {<<"3", "-", "5">>, <<"5", "-", "3">>, <<"5">>, <<"NaN", "-", "NaN">>}

Rule(p) == [Description |-> IF p = "a" THEN "rule a" ELSE IF p = "b" THEN "rule b" ELSE "rule (",
            Regex |-> p]

EntryKinds == {"rule", "line", "file", "regex", "repo", "commit", "branch", "entropy"}

EntryValues(kind) ==
  CASE kind = "rule" -> {Rule(p) : p \in Patterns}
    [] kind \in {"line", "file", "regex", "repo"} -> Patterns
    [] kind = "commit" -> Ids
    [] kind = "branch" -> {"origin/master"}
    [] kind = "entropy" -> DocSpans

\* the document with one more entry at the end of its list
AddEntry(doc, kind, v) ==
  CASE kind = "rule" -> [doc EXCEPT !.Regexes = Append(@, v)]
    [] kind = "line" -> [doc EXCEPT !.Entropy.LineRegexes = Append(@, v)]
    [] kind = "file" -> [doc EXCEPT !.Whitelist.Files = Append(@, v)]
    [] kind = "regex" -> [doc EXCEPT !.Whitelist.Regexes = Append(@, v)]
    [] kind = "repo" -> [doc EXCEPT !.Whitelist.Repos = Append(@, v)]
    [] kind = "commit" -> [doc EXCEPT !.Whitelist.Commits = Append(@, v)]
    [] kind = "branch" -> [doc EXCEPT !.Whitelist.Branches = Append(@, v)]
    [] kind = "entropy" -> [doc EXCEPT !.Misc.Entropy = Append(@, v)]

RECURSIVE DocumentsUpTo(_)
DocumentsUpTo(n) ==
  IF n = 0 THEN {EmptyDocument}
  ELSE LET smaller == DocumentsUpTo(n - 1)
       IN smaller \cup
          UNION {{AddEntry(doc, kind, v) : v \in EntryValues(kind)} :
                 doc \in smaller, kind \in EntryKinds}

Documents == DocumentsUpTo(MaxEntries)

\* defaultConfig: [[rules]] tables and one whitelisted file pattern
DefaultDocument ==
  [EmptyDocument EXCEPT !.Rules = <<Rule("a")>>, !.Whitelist.Files = <<"b">>]

\* toml.Decode into a TomlConfig: keys the struct has no field for are dropped
Decode(doc) ==
  [Regexes |-> doc.Regexes,
   Entropy |-> [LineRegexes |-> doc.Entropy.LineRegexes],
   Whitelist |-> [Files |-> doc.Whitelist.Files, Regexes |-> doc.Whitelist.Regexes,
                  Commits |-> doc.Whitelist.Commits, Repos |-> doc.Whitelist.Repos],
   Misc |-> [Entropy |-> doc.Misc.Entropy]]

\* regexp.MustCompile(p): panics unless p compiles
Compiles(p) == p # "("

MustCompile(p) == [re |-> p]

AllCompile(ps) == \A j \in DOMAIN ps : Compiles(ps[j])

CompileAll(ps) == [j \in DOMAIN ps |-> MustCompile(ps[j])]

\* the list emptied when a range string is refused
RECURSIVE UpdateEntropyRangesOrNone(_, _)
UpdateEntropyRangesOrNone(ranges, entropyLimitStr) ==
  IF entropyLimitStr = <<>> THEN [ranges |-> ranges, out |-> "ok"]
  ELSE LET span == Head(entropyLimitStr)
           out == RangeOutcome(span)
       IN IF out = "append"
          THEN UpdateEntropyRangesOrNone(Append(ranges, EntropyRange(span)),
                                         Tail(entropyLimitStr))
          ELSE [ranges |-> <<>>, out |-> out]

\* updateEntropyRanges over the whole list, from the ranges already stored
RECURSIVE UpdateEntropyRanges(_, _)
UpdateEntropyRanges(ranges, entropyLimitStr) ==
  IF entropyLimitStr = <<>> THEN [ranges |-> ranges, out |-> "ok"]
  ELSE LET span == Head(entropyLimitStr)
           out == RangeOutcome(span)
       IN IF out = "append"
          THEN UpdateEntropyRanges(Append(ranges, EntropyRange(span)), Tail(entropyLimitStr))
          ELSE [ranges |-> ranges, out |-> out]

\* the single search rule followed by the document's rules
UpdateRegexesBoth(regexes, tomlConfig, single) ==
  (IF single
   THEN Append(regexes, [description |-> "single search", regex |-> MustCompile(SinglePattern)])
   ELSE regexes)
  \o [j \in DOMAIN tomlConfig.Regexes |->
        [description |-> tomlConfig.Regexes[j].Description,
         regex |-> MustCompile(tomlConfig.Regexes[j].Regex)]]

\* the single search rule instead of the document's rules
UpdateRegexes(regexes, tomlConfig, single) ==
  IF single
  THEN Append(regexes, [description |-> "single search", regex |-> MustCompile(SinglePattern)])
  ELSE regexes \o [j \in DOMAIN tomlConfig.Regexes |->
                     [description |-> tomlConfig.Regexes[j].Description,
                      regex |-> MustCompile(tomlConfig.Regexes[j].Regex)]]

\* the patterns update hands to regexp.MustCompile, in the order it does
Compiled(tomlConfig, single) ==
  tomlConfig.Entropy.LineRegexes
  \o (IF single THEN <<>> ELSE [j \in DOMAIN tomlConfig.Regexes |-> tomlConfig.Regexes[j].Regex])
  \o tomlConfig.Whitelist.Files \o tomlConfig.Whitelist.Regexes \o tomlConfig.Whitelist.Repos

\* Config.update: the configuration and entropy ranges it leaves, and how it ends
\* ("ok": returned nil, "error": returned an error, "panic")
Update(c, ranges, tomlConfig, single) ==
  LET e == IF Len(tomlConfig.Misc.Entropy) # 0
           THEN UpdateEntropyRanges(ranges, tomlConfig.Misc.Entropy)
           ELSE [ranges |-> ranges, out |-> "ok"]
  IN IF e.out # "ok" THEN [config |-> c, ranges |-> e.ranges, out |-> e.out]
     ELSE IF ~AllCompile(Compiled(tomlConfig, single))
          THEN [config |-> c, ranges |-> e.ranges, out |-> "panic"]
          ELSE [config |->
                  [Regexes |-> UpdateRegexes(c.Regexes, tomlConfig, single),
                   WhiteList |->
                     [regexes |-> c.WhiteList.regexes \o CompileAll(tomlConfig.Whitelist.Regexes),
                      files |-> c.WhiteList.files \o CompileAll(tomlConfig.Whitelist.Files),
                      commits |-> {tomlConfig.Whitelist.Commits[j] :
                                     j \in DOMAIN tomlConfig.Whitelist.Commits},
                      repos |-> c.WhiteList.repos \o CompileAll(tomlConfig.Whitelist.Repos)],
                   Entropy |->
                     [regexes |-> c.Entropy.regexes \o CompileAll(tomlConfig.Entropy.LineRegexes)]],
                ranges |-> e.ranges, out |-> "ok"]

Paths == {"", "/p"}

Envs ==
  {e \in [ConfigPath : Paths, StatOK : BOOLEAN, EnvPath : {"", "/e"}, DecodeOK : BOOLEAN,
          SSHOK : BOOLEAN, Single : BOOLEAN] :
     /\ e.ConfigPath = "" => e.StatOK
     /\ (e.ConfigPath = "" /\ e.EnvPath = "") => e.DecodeOK}

InitBuilder ==
  /\ cenv \in Envs
  /\ configPath = ""
  /\ document = EmptyDocument
  /\ config = EmptyConfig
  /\ cerr = NoError
  /\ cret = "none"
  /\ repoUpdate = "none"
  /\ entropyRanges = <<>>
  /\ load = "ok"
  /\ InitAzIdle /\ InitFilterIdle

InitConfig == InitIdle /\ InitBuilder

\* GITLEAKS_CONFIG before opts.ConfigPath
EnvFirst(env) == IF env.EnvPath # "" THEN env.EnvPath ELSE env.ConfigPath

\* the path newConfig settles on: opts.ConfigPath, else GITLEAKS_CONFIG
ChoosePath(env) ==
  IF env.ConfigPath # "" THEN env.ConfigPath ELSE env.EnvPath

NotCalled == cret = "none"

NewConfigNoFile ==
  /\ NotCalled
  /\ cenv.ConfigPath # "" /\ ~cenv.StatOK
  /\ configPath' = cenv.ConfigPath
  /\ cerr' = Error("no gitleaks config at %s", cenv.ConfigPath)
  /\ cret' = "nil"
  /\ UNCHANGED <<rest, inputs, audit, loader, cenv, document, config, repoUpdate>>

NewConfigDecodeError ==
  /\ NotCalled
  /\ ~(cenv.ConfigPath # "" /\ ~cenv.StatOK)
  /\ ChoosePath(cenv) # "" /\ ~cenv.DecodeOK
  /\ configPath' = ChoosePath(cenv)
  /\ cerr' = Error("problem loading config: %v", ChoosePath(cenv))
  /\ cret' = "nil"
  /\ UNCHANGED <<rest, inputs, audit, loader, cenv, document, config, repoUpdate>>

\* the documents the decode of the chosen source may yield
Sources ==
  IF ChoosePath(cenv) # "" THEN (IF cenv.DecodeOK THEN Documents ELSE {})
                           ELSE {DefaultDocument}

\* newConfig gets past os.Stat
Statted == NotCalled /\ ~(cenv.ConfigPath # "" /\ ~cenv.StatOK)

\* the document was decoded
Decoded(doc) ==
  /\ configPath' = ChoosePath(cenv)
  /\ document' = doc

NewConfigSSHError ==
  /\ Statted
  /\ ~cenv.SSHOK
  /\ \E doc \in Sources : Decoded(doc)
  /\ cerr' = Error("unable to generate ssh key: %v", "")
  /\ cret' = "nil"
  /\ UNCHANGED <<rest, inputs, audit, loader, cenv, config, repoUpdate>>

NewConfigUpdate ==
  /\ Statted
  /\ cenv.SSHOK
  /\ \E doc \in Sources :
       /\ Decoded(doc)
       /\ LET u == Update(EmptyConfig, <<>>, Decode(doc), cenv.Single)
          IN /\ config' = u.config
             /\ entropyRanges' = u.ranges
             /\ load' = u.out
             /\ cret' = CASE u.out = "ok" -> "config"
                          [] u.out = "error" -> "nil"
                          [] u.out = "panic" -> "panic"
             /\ cerr' = IF u.out = "error" THEN Error("entropy range", "") ELSE NoError
  /\ UNCHANGED <<rest, inputs, audit, cenv, repoUpdate>>

\* tables of the repository's .gitleaks.toml that updateFromRepo's decode may find
RepoTables == 0..MaxEntries

\* toml.DecodeReader(f, &config): the document is decoded into the Config itself,
\* whose only settable field is Regexes, a slice of structs without settable fields
DecodeIntoConfig(c, tables) ==
  IF tables = 0 THEN c
  ELSE [c EXCEPT !.Regexes = [j \in 1..tables |-> [description |-> "", regex |-> [re |-> ""]]]]

Built == cret = "config" /\ repoUpdate = "none"

UpdateFromRepoError ==
  /\ Built
  /\ repoUpdate' = "error"
  /\ UNCHANGED <<rest, inputs, audit, loader, cenv, configPath, document, config, cerr, cret>>

\* var tomlConfig TomlConfig stays empty: update is called with it
UpdateFromRepo ==
  /\ Built
  /\ \E tables \in RepoTables :
       LET u == Update(DecodeIntoConfig(config, tables), entropyRanges,
                       Decode(EmptyDocument), cenv.Single)
       IN /\ config' = u.config
          /\ entropyRanges' = u.ranges
          /\ load' = u.out
  /\ repoUpdate' = "ok"
  /\ UNCHANGED <<rest, inputs, audit, cenv, configPath, document, cerr, cret>>

NextConfig ==
  \/ NewConfigNoFile \/ NewConfigDecodeError \/ NewConfigSSHError \/ NewConfigUpdate
  \/ UpdateFromRepoError \/ UpdateFromRepo

SpecConfig == InitConfig /\ [][NextConfig]_vars

\* documents of a second call of update: the one of the first call, or one entry
SecondDocuments(doc) == {doc} \cup DocumentsUpTo(1)

\* config.update(tomlConfig) called again on the Config newConfig built
UpdateAgain ==
  /\ Built
  /\ \E doc \in SecondDocuments(document) :
       LET u == Update(config, entropyRanges, Decode(doc), cenv.Single)
       IN /\ document' = doc
          /\ config' = u.config
          /\ entropyRanges' = u.ranges
          /\ load' = u.out
  /\ repoUpdate' = "again"
  /\ UNCHANGED <<rest, inputs, audit, cenv, configPath, cerr, cret>>

NextUpdate == NextConfig \/ UpdateAgain

SpecUpdate == InitConfig /\ [][NextUpdate]_vars

\* ------------------------------------------------ auditAzureDevOpsRepos
NoLeaks == 0

\* a repository of the organization: how its git clone, its PlainOpen and its
\* audit end, and the leaks the audit leaves in repo.leaks
AzRepos ==
  {[clone |-> "exec", audit |-> "none", leaks |-> 0],
   [clone |-> "open", audit |-> "none", leaks |-> 0]}
  \cup {[clone |-> "ok", audit |-> a, leaks |-> n] : a \in {"ok", "err"}, n \in 0..MaxRepoLeaks}

RECURSIVE SeqsUpTo(_, _)
SeqsUpTo(S, n) ==
  IF n = 0 THEN {<<>>}
  ELSE LET shorter == SeqsUpTo(S, n - 1)
       IN shorter \cup {Append(q, x) : q \in shorter, x \in S}

AzStarts ==
  {[AzIdle EXCEPT !.pc = "start", !.setup = st, !.repos = rs, !.Report = rp, !.writeOK = w] :
     st \in {"ok"}, rs \in SeqsUpTo(AzRepos, MaxRepos), rp \in {"", "report.json"},
     w \in BOOLEAN}
  \cup {[AzIdle EXCEPT !.pc = "start", !.setup = st] : st \in {"client", "repos", "tempdir"}}

InitAzdev ==
  /\ InitIdle
  /\ entropyRanges = <<>> /\ load = "ok"
  /\ InitBuilderIdle /\ InitFilterIdle
  /\ az \in {a \in AzStarts : a.Report = "" => a.writeOK}

AzUnchanged == UNCHANGED <<inputs, audit, loader, builder, flt, run>>

\* git.NewClient, GetRepositories or createAzureDevOpsTempDir failed: log.Fatal
AzSetupFatal ==
  /\ az.pc = "start" /\ az.setup # "ok"
  /\ az' = [az EXCEPT !.pc = "fatal"]
  /\ AzUnchanged

AzSetup ==
  /\ az.pc = "start" /\ az.setup = "ok"
  /\ az' = [az EXCEPT !.pc = "loop", !.idx = 1]
  /\ AzUnchanged

AzInLoop == az.pc = "loop" /\ az.idx <= Len(az.repos)

\* cloneAzureDevopsRepo: exec of git clone failed, log.Fatal(err)
AzCloneFatal ==
  /\ AzInLoop /\ az.repos[az.idx].clone = "exec"
  /\ az' = [az EXCEPT !.pc = "fatal"]
  /\ AzUnchanged

\* cloneAzureDevopsRepo returned the error of gogit.PlainOpen
AzCloneError ==
  /\ AzInLoop /\ az.repos[az.idx].clone = "open"
  /\ az' = [az EXCEPT !.warned = @ \cup {az.idx}, !.removed = @ \cup {az.idx},
                       !.idx = @ + 1]
  /\ AzUnchanged

\* the leaks of a repository whose audit failed appended all the same
AzAuditErrorCounted ==
  /\ AzInLoop /\ az.repos[az.idx].clone = "ok" /\ az.repos[az.idx].audit = "err"
  /\ az' = [az EXCEPT !.warned = @ \cup {az.idx}, !.removed = @ \cup {az.idx},
                       !.leaks = @ \o [j \in 1..az.repos[az.idx].leaks |-> az.idx],
                       !.idx = @ + 1]
  /\ AzUnchanged

AzAuditError ==
  /\ AzInLoop /\ az.repos[az.idx].clone = "ok" /\ az.repos[az.idx].audit = "err"
  /\ az' = [az EXCEPT !.warned = @ \cup {az.idx}, !.removed = @ \cup {az.idx},
                       !.idx = @ + 1]
  /\ AzUnchanged

\* leaks = append(leaks, repo.leaks...)
AzAudited ==
  /\ AzInLoop /\ az.repos[az.idx].clone = "ok" /\ az.repos[az.idx].audit = "ok"
  /\ az' = [az EXCEPT !.audited = @ \cup {az.idx}, !.removed = @ \cup {az.idx},
                       !.leaks = @ \o [j \in 1..az.repos[az.idx].leaks |-> az.idx],
                       !.idx = @ + 1]
  /\ AzUnchanged

AzLoopDone == az.pc = "loop" /\ az.idx > Len(az.repos)

\* the number of leaks returned beside the error of writeReport
AzWriteReportErrorCount ==
  /\ AzLoopDone
  /\ az.Report # "" /\ ~az.writeOK
  /\ az' = [az EXCEPT !.pc = "returned", !.ret = Len(az.leaks), !.err = "writeReport"]
  /\ AzUnchanged

AzWriteReportError ==
  /\ AzLoopDone
  /\ az.Report # "" /\ ~az.writeOK
  /\ az' = [az EXCEPT !.pc = "returned", !.ret = NoLeaks, !.err = "writeReport"]
  /\ AzUnchanged

AzReturn ==
  /\ AzLoopDone
  /\ az.Report # "" => az.writeOK
  /\ az' = [az EXCEPT !.pc = "returned", !.written = (az.Report # ""),
                       !.ret = Len(az.leaks), !.err = ""]
  /\ AzUnchanged

NextAzdev ==
  \/ AzSetupFatal \/ AzSetup \/ AzCloneFatal \/ AzCloneError \/ AzAuditError
  \/ AzAudited \/ AzWriteReportError \/ AzReturn

SpecAzdev == InitAzdev /\ [][NextAzdev]_vars

\* ------------------------------------------ whitelist check and redaction
Axes == {"commit", "file", "branch", "regex", "repo"}

\* pattern p finds a match in text t
MatchPairs ==
  {<<"go", "x.go">>, <<"x", "x.go">>, <<"x", "x.md">>,
   <<"AKIA", "AKIA1">>, <<"1", "AKIA1">>, <<"1", "key1">>,
   <<"gronit", "gronit">>, <<"g", "gronit">>, <<"g", "gitleaks">>}

Matches(p, t) == <<p, t>> \in MatchPairs

AxisValues(a) ==
  CASE a = "commit" -> {"c1", "c2"}
    [] a = "file" -> {"go", "x"}
    [] a = "branch" -> {"origin/master", "origin/dev"}
    [] a = "regex" -> {"AKIA", "1"}
    [] a = "repo" -> {"gronit", "g"}

WhitelistEntries == {e \in Axes \X {"c1", "c2", "go", "x", "origin/master", "origin/dev",
                                      "AKIA", "1", "gronit", "g"} : e[2] \in AxisValues(e[1])}

WhitelistOf(es) ==
  [commits |-> {e[2] : e \in {x \in es : x[1] = "commit"}},
   files |-> {e[2] : e \in {x \in es : x[1] = "file"}},
   branches |-> {e[2] : e \in {x \in es : x[1] = "branch"}},
   regexes |-> {e[2] : e \in {x \in es : x[1] = "regex"}},
   repos |-> {e[2] : e \in {x \in es : x[1] = "repo"}}]

Whitelists ==
  {WhitelistOf(es) : es \in {x \in SUBSET WhitelistEntries : Cardinality(x) <= MaxEntries}}

Candidates ==
  [Line : {"line"}, Commit : {"c1", "c2"}, Offender : {"AKIA1", "key1"}, Type : {"rule"},
   File : {"x.go", "x.md"}, Branch : {"origin/master", "origin/dev"},
   Repo : {"gronit", "gitleaks"}, Author : {"author"}]

InitFilter ==
  /\ InitIdle
  /\ entropyRanges = <<>> /\ load = "ok"
  /\ InitBuilderIdle /\ InitAzIdle
  /\ \E w \in Whitelists, l \in Candidates, r \in BOOLEAN :
       flt = [FilterIdle EXCEPT !.pc = "check", !.wl = w, !.leak = l, !.redact = r]

\* one whitelist axis matches the candidate, an empty axis included
AxisMatchesOrEmpty(a, w, l) ==
  CASE a = "commit" -> w.commits = {} \/ l.Commit \in w.commits
    [] a = "file" -> w.files = {} \/ \E p \in w.files : Matches(p, l.File)
    [] a = "branch" -> w.branches = {} \/ l.Branch \in w.branches
    [] a = "regex" -> w.regexes = {} \/ \E p \in w.regexes : Matches(p, l.Offender)
    [] a = "repo" -> w.repos = {} \/ \E p \in w.repos : Matches(p, l.Repo)

\* one whitelist axis matches the candidate
AxisMatches(a, w, l) ==
  CASE a = "commit" -> l.Commit \in w.commits
    [] a = "file" -> \E p \in w.files : Matches(p, l.File)
    [] a = "branch" -> l.Branch \in w.branches
    [] a = "regex" -> \E p \in w.regexes : Matches(p, l.Offender)
    [] a = "repo" -> \E p \in w.repos : Matches(p, l.Repo)

\* redaction that also drops the line
RedactLine(l) == [l EXCEPT !.Offender = "REDACTED", !.Line = "REDACTED"]

Redact(l) == [l EXCEPT !.Offender = "REDACTED"]

FilterUnchanged == UNCHANGED <<inputs, audit, loader, builder, az, run>>

\* the next axis checked matches: the candidate is suppressed at once
AxisSuppresses(a) ==
  /\ flt.pc = "check" /\ a \notin flt.checked
  /\ AxisMatches(a, flt.wl, flt.leak)
  /\ flt' = [flt EXCEPT !.pc = "suppressed", !.checked = @ \cup {a}]
  /\ FilterUnchanged

AxisPasses(a) ==
  /\ flt.pc = "check" /\ a \notin flt.checked
  /\ ~AxisMatches(a, flt.wl, flt.leak)
  /\ flt' = [flt EXCEPT !.checked = @ \cup {a}]
  /\ FilterUnchanged

\* no axis matched: the leak is reported, redacted in redact mode
Keep ==
  /\ flt.pc = "check" /\ flt.checked = Axes
  /\ flt' = [flt EXCEPT !.pc = "kept",
                         !.result = Append(@, IF flt.redact THEN Redact(flt.leak)
                                                            ELSE flt.leak)]
  /\ FilterUnchanged

NextFilter == \/ \E a \in Axes : AxisSuppresses(a) \/ AxisPasses(a)
              \/ Keep

SpecFilter == InitFilter /\ [][NextFilter]_vars

SpecDepth == InitDepth /\ [][Next]_vars

\* ------------------------------------------------------------ vocabulary
Range(s) == {s[j] : j \in DOMAIN s}

SeqToBag(s) == [x \in Range(s) |-> Cardinality({j \in DOMAIN s : s[j] = x})]

CountOf(s, c) == Cardinality({j \in DOMAIN s : s[j].Commit = c})

IsPrefix(s, t) == Len(s) <= Len(t) /\ \A j \in DOMAIN s : s[j] = t[j]

\* tasks that sent on semaphoreChan and have not yet received from it
Holding == {c \in Ids : pc[c] \in {"diff", "release"}}

\* tasks whose `git diff` has returned
Diffed == {c \in Ids : pc[c] \in {"release", "check", "cleanupChdir", "cleanupRm",
                                  "add", "send", "exit", "done"}}

\* leaks a task has passed to the aggregator through the gitLeaks channel
Handed ==
  {l \in [Commit : Ids, n : 1..MaxLeaks] :
     l.n < k[l.Commit] \/ (l.n = k[l.Commit] /\ pc[l.Commit] # "send")}

\* the commit sequence up to, not including, the first occurrence of the stop commit
StopIndex ==
  IF opts.SinceCommit # "" /\ \E j \in DOMAIN commits : commits[j] = opts.SinceCommit
  THEN CHOOSE j \in DOMAIN commits :
         /\ commits[j] = opts.SinceCommit
         /\ \A h \in 1..(j - 1) : commits[h] # opts.SinceCommit
  ELSE Len(commits) + 1

NonEmpty(x) == x # ""

InScope == SelectSeq(SubSeq(commits, 1, StopIndex - 1), NonEmpty)

\* ----------------------------------------------------------------- claims
\* C1: for every concurrency limit N >= 1 the number of tasks that hold a
\* semaphore permit (acquired, not yet released) is at most N in every state.
C1_PermitBound == opts.Concurrency >= 1 => Cardinality(Holding) <= opts.Concurrency

C1_Witness ==
  /\ opts.Concurrency >= 1
  /\ Cardinality(Holding) = opts.Concurrency
  /\ \E c \in Ids : pc[c] = "acquire"

\* C2: getLeaks has returned only if every dispatched task has finished (diff
\* succeeded or failed) and none of them still has a leak to hand off.
C2_ReturnAfterTasks ==
  pcD = "returned" =>
    \A c \in Range(dispatched) :
      /\ pc[c] = "done"
      /\ (err[c] \/ k[c] = Len(DoChecks(c)))

C2_Witness ==
  /\ pcD = "returned"
  /\ \E c, d \in Range(dispatched) : err[c] /\ ~err[d] /\ detected[d] > 0

\* C3: when getLeaks returns, the report is the multiset union of the leaks
\* detection produced for the dispatched commits whose diff succeeded, and every
\* leak handed to the aggregator channel is in it exactly once.
C3_ReportExact ==
  pcD = "returned" =>
    /\ SeqToBag(ret) =
         SetToBag(UNION {Range(DoChecks(c)) : c \in {d \in Range(dispatched) : ~err[d]}})
    /\ \A l \in Handed : Cardinality({j \in DOMAIN ret : ret[j] = l}) = 1

C3_Witness ==
  /\ pcD = "returned"
  /\ Len(ret) = 2
  /\ ret[1].Commit # ret[2].Commit

C5_FailureIsolated ==
  /\ \A c \in Ids : (pc[c] \in {"chdir", "acquire", "diff"} /\ diffable[c]) => repoExists
  /\ fatal # "chdir"
  /\ \A c \in Diffed : err[c] => ~diffable[c]
  /\ pcD = "returned" =>
       \A c \in Range(InScope) : CountOf(ret, c) = IF diffable[c] THEN detected[c] ELSE 0

\* C6: a task is dispatched for exactly the non-empty commit ids before the first
\* occurrence of the stop commit, once each and in order; with no stop commit,
\* or one that does not occur, for every non-empty commit id.
C6_DispatchScope ==
  /\ IsPrefix(dispatched, InScope)
  /\ pcD \notin {"revlist", "loop"} => dispatched = InScope
  /\ \A c \in Ids : pc[c] # "none" <=> c \in Range(dispatched)

C6_Witness ==
  /\ pcD = "commitWait"
  /\ opts.SinceCommit # ""
  /\ \E j \in DOMAIN commits : j > 1 /\ commits[j] = opts.SinceCommit
  /\ Len(dispatched) >= 1

\* C7 (as claimed): with a maximum depth D configured, tasks are dispatched for at
\* most the first D commits.
C7_DepthBound == opts.Depth > 0 => Len(dispatched) <= opts.Depth

\* C8: a commit for which detection yields no leak makes no hand-off, never
\* increments the receiver wait counter, and has no leak in the report.
C8_NoLeakNoHandoff ==
  \A c \in Ids :
    detected[c] = 0 =>
      /\ k[c] = 0
      /\ pc[c] \notin {"add", "send"}
      /\ gitLeak.Commit # c
      /\ CountOf(report, c) = 0
      /\ CountOf(ret, c) = 0

C8_Witness ==
  /\ pcD = "returned"
  /\ Len(ret) > 0
  /\ \E c \in Range(dispatched) : detected[c] = 0 /\ ~err[c] /\ pc[c] = "done"

Str53 == <<"5", "-", "3">>

StrMinus19 == <<"-", "1", "-", "9">>

\* 0 <= low <= high <= 8
WithinBounds(r) ==
  /\ ~r.v1.nan /\ ~r.v2.nan
  /\ 0 <= r.v1.val /\ r.v1.val <= r.v2.val /\ r.v2.val <= EntropyMax

\* C9 (as claimed): loading "5-3" and loading "-1-9" fail with an error, and
\* while loading has not failed every stored range has 0 <= low <= high <= 8.
C9_RangesValidated ==
  /\ RangeOutcome(Str53) = "error"
  /\ RangeOutcome(StrMinus19) = "error"
  /\ load \in {"loop", "ok"} => \A j \in DOMAIN entropyRanges : WithinBounds(entropyRanges[j])

\* C10 (as claimed): for every range string, malformed ones included, loading
\* succeeds or returns an error and never ends in a runtime panic.
C10_NoPanic == load # "panic"

\* ------------------------------------------------ claims on the configuration
RulePatterns(doc) == [j \in DOMAIN doc.Regexes |-> doc.Regexes[j].Regex]

\* every pattern of the document: rules, entropy line filters, whitelisted
\* files, contents and repositories
DocumentPatterns(doc) ==
  RulePatterns(doc) \o doc.Entropy.LineRegexes \o doc.Whitelist.Files
  \o doc.Whitelist.Regexes \o doc.Whitelist.Repos

HasInvalidPattern(doc) == ~AllCompile(DocumentPatterns(doc))

\* C11: once newConfig has loaded a document holding a pattern that does not
\* compile, it has returned a nil configuration together with an error
C11_InvalidPatternIsError ==
  (cret # "none" /\ HasInvalidPattern(document)) => (cret = "nil" /\ cerr # NoError)

\* C12: newConfig reads the explicit path if set, else the environment path
\* if set, else the default document; a missing explicit path ends in "no
\* gitleaks config at <path>" and an unreadable chosen path in "problem
\* loading config", in both cases with nothing loaded from another source;
\* whenever an error is returned the configuration returned is nil
C12_SourcePrecedence ==
  cret # "none" =>
    /\ configPath = IF cenv.ConfigPath # "" THEN cenv.ConfigPath ELSE cenv.EnvPath
    /\ (cenv.ConfigPath # "" /\ ~cenv.StatOK) =>
          /\ cret = "nil"
          /\ cerr = Error("no gitleaks config at %s", cenv.ConfigPath)
          /\ document = EmptyDocument /\ config = EmptyConfig
    /\ (cenv.ConfigPath = "" /\ cenv.EnvPath # "" /\ ~cenv.DecodeOK) =>
          /\ cret = "nil"
          /\ cerr = Error("problem loading config: %v", cenv.EnvPath)
          /\ document = EmptyDocument /\ config = EmptyConfig
    /\ (cenv.ConfigPath = "" /\ cenv.EnvPath = "") => document = DefaultDocument
    /\ cerr # NoError => cret = "nil"
    /\ cret = "nil" => (cerr # NoError /\ config = EmptyConfig)

C12_Witness ==
  /\ cret = "nil"
  /\ cenv.ConfigPath # "" /\ cenv.EnvPath # "" /\ ~cenv.StatOK


SingleSearch == [description |-> "single search", regex |-> [re |-> SinglePattern]]

WhitelistBranches(c) ==
  IF "branches" \in DOMAIN c.WhiteList THEN c.WhiteList.branches ELSE {}

\* C15: every branch name the document lists under its whitelist is in the
\* whitelist of the configuration built from it
C15_BranchesLoaded ==
  cret = "config" =>
    \A j \in DOMAIN document.Whitelist.Branches :
      document.Whitelist.Branches[j] \in WhitelistBranches(config)

\* C19: once newConfig has returned a configuration, no step changes its rule
\* list, its whitelist or its entropy ranges
C19_ConfigFrozen ==
  [][cret = "config" => (config' = config /\ entropyRanges' = entropyRanges)]_vars

\* ------------------------------------------- claims on whitelist and redaction
\* the candidate matches the whitelist on some axis
Whitelisted(w, l) ==
  \/ l.Commit \in w.commits
  \/ \E p \in w.files : Matches(p, l.File)
  \/ l.Branch \in w.branches
  \/ \E p \in w.regexes : Matches(p, l.Offender)
  \/ \E p \in w.repos : Matches(p, l.Repo)

\* C14: whatever the order in which the axes are checked, the candidate ends
\* suppressed exactly when its commit id is in the commit set, or a file
\* pattern matches its path, or its branch is a whitelisted name, or a content
\* pattern matches its offending substring, or a repository pattern matches its
\* repository name; with every axis empty it is never suppressed
C14_SuppressIffAxisMatches ==
  /\ flt.pc = "suppressed" => Whitelisted(flt.wl, flt.leak)
  /\ flt.pc = "kept" => ~Whitelisted(flt.wl, flt.leak)
  /\ flt.pc = "suppressed" => (flt.wl # EmptyWhitelist /\ flt.result = <<>>)
  /\ (flt.pc = "check" /\ flt.checked = Axes) => ~Whitelisted(flt.wl, flt.leak)

C14_Witness ==
  /\ flt.pc = "suppressed"
  /\ flt.checked = Axes
  /\ \E a \in Axes : WhitelistOf({<<a, v>> : v \in AxisValues(a)}) = flt.wl

\* C16: in redact mode a reported leak has the offender "REDACTED" and every
\* other field as detected, and the number of leaks reported is the one of a
\* run without redaction: one for a candidate kept, none for one suppressed
C16_RedactOffenderOnly ==
  /\ Len(flt.result) = IF flt.pc = "kept" THEN 1 ELSE 0
  /\ (flt.pc = "kept" /\ flt.redact) =>
        /\ flt.result[1].Offender = "REDACTED"
        /\ \A f \in DOMAIN flt.leak \ {"Offender"} : flt.result[1][f] = flt.leak[f]
  /\ (flt.pc = "kept" /\ ~flt.redact) => flt.result[1] = flt.leak

C16_Witness ==
  /\ flt.pc = "kept" /\ flt.redact
  /\ flt.wl # EmptyWhitelist
  /\ flt.leak.Offender = "AKIA1"

\* ------------------------------------------------ claims on the organization audit
AzOK(j) == az.repos[j].clone = "ok" /\ az.repos[j].audit = "ok"

\* C20 (as claimed): a repository whose clone or audit failed has been logged
\* and the run goes on after it, and the count returned without error is the
\* total of the leaks of the repositories audited successfully
C20_RepoErrorsDoNotStop ==
  /\ \A j \in DOMAIN az.repos :
       ((j < az.idx \/ (j = az.idx /\ az.pc = "fatal")) /\ ~AzOK(j)) =>
         (j \in az.warned /\ az.pc # "fatal")
  /\ (az.pc = "returned" /\ az.err = "") =>
       /\ az.audited = {j \in DOMAIN az.repos : AzOK(j)}
       /\ az.ret = SumOver([j \in DOMAIN az.repos |-> az.repos[j].leaks], az.audited)

\* ------------------------------------------------ claims on sharing in getLeaks
\* no task is announcing or handing off a leak and the aggregator is idle
Quiescent ==
  /\ commitWG = 0 /\ recvWG = 0
  /\ pcA = "recv"
  /\ \A c \in Ids : pc[c] \in {"none", "done"}

\* C17: the report changes only in the aggregator's append step, which leaves
\* every task and the dispatcher where they are, and the dispatcher is at or
\* past its read of the report only when both wait groups are at zero, the
\* aggregator is back at its receive and no task has a leak to hand off
C17_ReportSingleWriter ==
  [][
    /\ report' # report =>
         /\ pcA = "append" /\ pcA' = "wgDone"
         /\ report' = Append(report, gitLeak)
         /\ pc' = pc /\ pcD' = pcD
    /\ pcD' \in {"return", "returned"} => Quiescent'
    /\ (pcD = "return" /\ pcD' = "returned") => (ret' = report /\ report' = report)
  ]_vars

C17_Witness ==
  /\ pcD = "returned"
  /\ Len(report) >= 2
  /\ \E c \in Ids : CountOf(report, c) >= 2

\* C18 (as claimed): what a task's diff returns depends on its own commit
\* alone, and between a task's chdir into the clone and its diff no other task
\* moves the process out of the clone or removes it
C18_TasksShareNothing ==
  /\ \A c \in Diffed : err[c] <=> ~diffable[c]
  /\ \A c \in Ids :
       (pc[c] \in {"acquire", "diff"} /\ diffable[c]) => (cwd = "repo" /\ repoExists)

\* ------------------------------------------- claims on permits and the report
\* tasks past the receive from semaphoreChan
Released == {c \in Ids : pc[c] \in {"check", "cleanupChdir", "cleanupRm", "add", "send",
                                     "exit", "done"}}

\* C21: the permits taken are exactly those of the tasks at their diff or
\* between its return and their release: a task at its diff has one, and no
\* permit is left with a task that runs detection, cleans up, announces or
\* sends a leak, or has finished, whether its diff failed or not
C21_PermitAroundDiff ==
  /\ sem = Cardinality(Holding)
  /\ \A c \in Ids : pc[c] = "diff" => sem >= 1
  /\ (\A c \in Range(dispatched) : c \in Released) => sem = 0
  /\ \A c \in Ids : (k[c] > 0 \/ pc[c] \in {"cleanupChdir", "cleanupRm"}) => c \in Released

C21_Witness ==
  \E c, d \in Ids :
    /\ pc[c] = "send" /\ pcA # "recv"
    /\ pc[d] = "cleanupRm" /\ err[d]
    /\ sem = 0

\* C22: once getLeaks has returned, the report is the one it returned, the
\* aggregator is blocked at its receive and no task is left that could send
C22_ReportFrozen ==
  pcD = "returned" =>
    /\ report = ret
    /\ pcA = "recv"
    /\ \A c \in Ids : pc[c] \notin {"add", "send"}

C22_Witness ==
  /\ pcD = "returned"
  /\ Len(report) = MaxLeaks
  /\ opts.Concurrency = 1
  /\ \E c \in Range(dispatched) : err[c]

\* C25: with concurrency 0 no task gets past its send on semaphoreChan, so no
\* diff is started, and with a commit in scope getLeaks does not get past
\* commitWG.Wait()
C25_ZeroNeverReturns ==
  opts.Concurrency = 0 =>
    /\ \A c \in Ids : pc[c] \in {"none", "chdir", "acquire"}
    /\ Len(InScope) >= 1 => pcD \notin {"receiverWait", "return", "returned"}

C25_Witness ==
  /\ opts.Concurrency = 0
  /\ pcD = "commitWait"
  /\ Len(dispatched) = MaxCommits
  /\ \A c \in Range(dispatched) : pc[c] = "acquire"

\* leaks announced with gitLeakReceiverWG.Add(1)
Announced == SumOver(k, Ids)

\* C26 (as claimed): the receiver counter is never negative and is the number
\* of leaks announced minus the number appended to the report, and no task is
\* left to announce one once the dispatcher waits on the counter
C26_ReceiverCounterExact ==
  /\ recvWG >= 0
  /\ recvWG = Announced - Len(report)
  /\ pcD \in {"receiverWait", "return", "returned"} =>
       \A c \in Ids : pc[c] \in {"none", "done"}

\* C26: the receiver counter is never negative and is the number of leaks
\* announced minus the number for which the aggregator has called Done(), which
\* is the number appended less the one appended and not yet signalled; no task
\* is left to announce a leak once the dispatcher waits on the counter
C26_ReceiverCounter ==
  /\ recvWG >= 0
  /\ recvWG = Announced - Len(report) + (IF pcA = "wgDone" THEN 1 ELSE 0)
  /\ pcD \in {"receiverWait", "return", "returned"} =>
       \A c \in Ids : pc[c] \in {"none", "done"}

C26_Witness ==
  /\ pcD = "receiverWait"
  /\ recvWG = 1 /\ pcA = "wgDone"
  /\ Len(report) = 2

\* C27: two leaks of one commit stand in the report in the order in which
\* doChecks returned them
C27_CommitOrderKept ==
  \A j, h \in DOMAIN report :
    (j < h /\ report[j].Commit = report[h].Commit) => report[j].n < report[h].n

C27_Witness ==
  /\ Len(report) = 2
  /\ report[1].Commit = report[2].Commit
  /\ \E d \in Ids : pc[d] = "acquire"

\* ------------------------------------- claims on the organization audit's total
\* leaks of the j-th repository among those collected
AzCount(j) == Cardinality({h \in DOMAIN az.leaks : az.leaks[h] = j})

AzTotal ==
  SumOver([j \in DOMAIN az.repos |-> az.repos[j].leaks], {j \in DOMAIN az.repos : AzOK(j)})

\* what the loop has collected: the leaks of the repositories whose audit
\* returned without error and nothing of one whose clone or audit failed
AzCollected ==
  /\ az.audited \subseteq {j \in DOMAIN az.repos : j < az.idx /\ AzOK(j)}
  /\ \A j \in DOMAIN az.repos :
       AzCount(j) = IF j \in az.audited THEN az.repos[j].leaks ELSE 0

\* C28 (as claimed): only the leaks of successfully audited repositories are
\* collected, and the count returned is their total
C28_TotalOfAudited ==
  /\ AzCollected
  /\ az.pc = "returned" => az.ret = AzTotal

\* C28: only the leaks of successfully audited repositories are collected, and
\* the count returned when no error is returned is their total
C28_TotalOfAuditedNoError ==
  /\ AzCollected
  /\ (az.pc = "returned" /\ az.err = "") => az.ret = AzTotal

C28_Witness ==
  /\ az.pc = "returned" /\ az.err = ""
  /\ az.ret > 0
  /\ \E j \in DOMAIN az.repos : az.repos[j].audit = "err" /\ az.repos[j].leaks > 0

\* C29: the report has been written only with a report path set; when the
\* write failed the function has returned NoLeaks and the error whatever the
\* leaks found, and otherwise the number of leaks found and no error
C29_ReportWriteOutcome ==
  az.pc = "returned" =>
    /\ az.written <=> (az.Report # "" /\ az.writeOK)
    /\ az.err # "" <=> (az.Report # "" /\ ~az.writeOK)
    /\ az.err # "" => az.ret = NoLeaks
    /\ az.err = "" => az.ret = Len(az.leaks)

C29_Witness ==
  /\ az.pc = "returned"
  /\ az.err # ""
  /\ Len(az.leaks) > 0

\* ------------------------------------------- claims on updateEntropyRanges
\* positions of the range strings updateEntropyRanges refuses
Refused(spans) == {j \in DOMAIN spans : RangeOutcome(spans[j]) # "append"}

FirstRefused(spans) == CHOOSE j \in Refused(spans) : \A h \in Refused(spans) : j <= h

\* C30: when updateEntropyRanges has failed on the k-th range string of the
\* document, the entropy range list holds the ranges of the first k-1 strings
\* and nothing of the k-th and later ones
C30_RangesKeptOnFailure ==
  (cret \in {"nil", "panic"} /\ cenv.SSHOK /\ Refused(document.Misc.Entropy) # {}) =>
    LET spans == document.Misc.Entropy
        kth == FirstRefused(spans)
    IN /\ load = RangeOutcome(spans[kth])
       /\ entropyRanges = [j \in 1..(kth - 1) |-> EntropyRange(spans[j])]

C30_Witness ==
  /\ cret = "nil" /\ load = "error"
  /\ Len(document.Misc.Entropy) = 2
  /\ Len(entropyRanges) = 1

\* ------------------------------------------------ claims on termination
\* C24 (as claimed): with a concurrency limit of at least 1, once rev-list has
\* given the commit sequence, getLeaks eventually returns
C24_EventuallyReturns ==
  (opts.Concurrency >= 1 /\ pcD = "loop") ~> (pcD = "returned")

\* an interrupt is in the channel or being handled, and the goroutine reading
\* the channel exists (the repository has been cloned and entered)
Interrupted == run.handler # "none" /\ (run.c > 0 \/ run.handler # "wait")

\* C23 (as claimed): an interrupt received once the repository has been cloned
\* and entered, or kept in the channel from before, eventually leads to the
\* working copy being removed and the process having exited with status 1
C23_InterruptCleansUp ==
  Interrupted ~> (fatal # "none" /\ ~repoExists)

\* --------------------------------------------- claims on repeated update
\* the rules a call of update adds for a document
AddedRules(doc) ==
  IF cenv.Single
  THEN <<[description |-> "single search", regex |-> [re |-> SinglePattern]]>>
  ELSE [j \in DOMAIN doc.Regexes |->
          [description |-> doc.Regexes[j].Description, regex |-> [re |-> doc.Regexes[j].Regex]]]

Res(ps) == [j \in DOMAIN ps |-> [re |-> ps[j]]]

\* C31: a second call of update that returns nil leaves every entry of the
\* first call in place and appends the second document's entries to the rule
\* list, the entropy line filters and the file, content and repository
\* whitelists, while the commit whitelist becomes exactly the commit ids of the
\* second document
C31_UpdateAppends ==
  [][
     (Built /\ repoUpdate' = "again" /\ load' = "ok") =>
       /\ config'.Regexes = config.Regexes \o AddedRules(document')
       /\ config'.Entropy.regexes = config.Entropy.regexes \o Res(document'.Entropy.LineRegexes)
       /\ config'.WhiteList.files = config.WhiteList.files \o Res(document'.Whitelist.Files)
       /\ config'.WhiteList.regexes = config.WhiteList.regexes \o Res(document'.Whitelist.Regexes)
       /\ config'.WhiteList.repos = config.WhiteList.repos \o Res(document'.Whitelist.Repos)
       /\ config'.WhiteList.commits = Range(document'.Whitelist.Commits)
  ]_vars

\* the same two-entry document applied twice: its file pattern is there twice,
\* its commit id once
C31_Witness ==
  /\ repoUpdate = "again" /\ load = "ok"
  /\ document.Whitelist.Files = <<"a">>
  /\ document.Whitelist.Commits = <<"c1">>
  /\ config.WhiteList.files = <<[re |-> "a"], [re |-> "a"]>>
  /\ config.WhiteList.commits = {"c1"}

====
